---- MODULE Spec2Model ----
(***************************************************************************)
(* Noughts and crosses: the board evaluator (getWinner, isDraw) and the    *)
(* minimax move selector (getBestMove) of lib/game, modelled as a state    *)
(* machine whose inputs are drawn in Init and whose actions are the calls, *)
(* and the App component that plays rounds with them (SpecGame,            *)
(* SpecSmart, SpecRetry): its round state, event handlers and AI move      *)
(* timer; its Telegram notification (SpecTelegram); and the server that    *)
(* links chats to codes and sends the messages (SpecServer).               *)
(*                                                                         *)
(* Representation of the TypeScript values:                                *)
(*   Cell = 'X' | 'O' | null     "X", "O", Null                            *)
(*   board: Cell[]               a function 0..8 -> Cell (0-indexed)       *)
(*   number[] | null (line)      a tuple of indices, NullLine for null     *)
(*   number | null (move)        an index 0..8, NullIndex for null         *)
(*   number[] (JS array)         a TLA+ sequence: JS arr[i] is seq[i + 1]  *)
(*   Math.random()               n / RandRes for n in 0..RandRes-1         *)
(*   string | null (promoCode)   a string, NullCode for null               *)
(*   strings the code parses     sequences of one-character strings        *)
(***************************************************************************)
EXTENDS Integers, Sequences, FiniteSets, TLC

VARIABLES
  board,      \* the board handed to the functions
  ai,         \* getBestMove's ai argument
  human,      \* getBestMove's human argument
  done,       \* the functions that have been called on this board
  retWinner,  \* the value getWinner returned
  retDraw,    \* the value isDraw returned
  bestScore,  \* getBestMove's local bestScore when it returned
  bestMoves,  \* getBestMove's local bestMoves when it returned
  rootScores, \* the values getBestMove's local score took, one per root move
  retMove,    \* the value getBestMove returned
  argTurn,    \* minimax's isAiTurn argument
  argDepth,   \* minimax's depth argument
  retScore,   \* the value minimax returned
  callDepth,  \* the largest number of nested minimax frames during the call
  threw,      \* the call ended with a RangeError (call stack exhausted)
  turn,            \* App state: whose move it is
  result,          \* App state: 'playing', 'win', 'loss' or 'draw'
  winningLine,     \* App state: the line shown as winning, or null
  promoCode,       \* App state: the promo code of a victory, or null
  difficulty,      \* App state: 'soft', 'balanced' or 'smart'
  failRetriesLeft, \* App state: the retries left after a loss or a draw
  endModalOpen,    \* App state: the end-of-round dialog is open
  aiTimer,         \* the timeout of the AI move effect and what it closed over
  telegramStatus,  \* App state: 'idle', 'sending', 'sent' or 'error'
  telegramSentRef, \* App ref: a notification was requested in this round
  inFlight,        \* the notification requests that were not answered yet
  roundRequests,   \* the bodies of the requests issued since the round began
  token,         \* server: TELEGRAM_BOT_TOKEN is set
  envChatId,     \* server: TELEGRAM_CHAT_ID, NullChat when unset
  linkMap,       \* server: the record of every link code
  botUsername,   \* server: the cached bot username, NullName when none
  now,           \* server: Date.now()
  ticks,         \* the number of times the clock was advanced
  lastPollAt,    \* server: the time of the last poll that was not skipped
  updatesOffset, \* server: the offset of the next getUpdates call
  updates,       \* the updates Telegram holds for the bot, oldest first
  response,      \* the answer to the last request the server handled
  outbox,        \* the sendMessage call the last request made, if any
  issued,        \* the codes POST /api/telegram/link has created
  started        \* the codes bound by a /start update, and to which chats

callVars ==
  <<ai, human, done, retWinner, retDraw, bestScore, bestMoves, rootScores,
    retMove, argTurn, argDepth, retScore, callDepth, threw>>

appVars ==
  <<turn, result, winningLine, promoCode, difficulty, failRetriesLeft,
    endModalOpen, aiTimer>>

notifyVars == <<telegramStatus, telegramSentRef, inFlight, roundRequests>>

serverVars ==
  <<token, envChatId, linkMap, botUsername, now, ticks, lastPollAt,
    updatesOffset, updates, response, outbox, issued, started>>

vars == <<board, callVars, appVars, notifyVars, serverVars>>

(***************************************************************************)
(* Bounds of the model.                                                    *)
(***************************************************************************)
\* getBestMove is applied to every board with at most MaxEmpty empty cells
\* (the human moves first, so the game calls it with at most 8).
MaxEmpty == 8
\* Math.random() takes the values n / RandRes; at least BoardLen values are
\* needed for every position of bestMoves to be selectable.
RandRes == 9
\* The call stack holds at most StackLimit nested minimax frames; one more
\* throws a RangeError (the engine's limit is far larger).
StackLimit == 12
\* The retry counter found in local storage when the page loads is at most
\* StoredRetries.
StoredRetries == 0
\* Boards with at most FrameEmpty empty cells are given to all three exported
\* functions in turn.
FrameEmpty == 5
\* minimax is called directly on boards with at most ScoreEmpty empty cells,
\* at a depth of at most ScoreDepth.
ScoreEmpty == 4
ScoreDepth == 1
\* A round is restarted only while fewer than MaxInFlight notification
\* requests are unanswered, so that at most MaxInFlight ever are.
MaxInFlight == 2
\* In SpecTelegram the human opens a round in one of the first Openings of
\* the three cells that differ under the symmetries of the board.
Openings == 1
\* The server's clock is advanced at most MaxTicks times, and Telegram
\* receives at most MaxUpdates updates for the bot.
MaxTicks == 2
\* The server handles at most MaxRequests requests.
MaxRequests == 3
MaxUpdates == 1

(***************************************************************************)
(* Values.                                                                 *)
(***************************************************************************)
HUMAN == "X"
AI == "O"
Null == "null"
NullLine == <<>>
NullIndex == -1
BoardLen == 9
\* JS Infinity: above (below, negated) every score, all of which lie in -10..10
Infinity == 1000

Cell == {HUMAN, AI, Null}
Indices == 0..(BoardLen - 1)
Boards == [Indices -> Cell]

LINES ==
  << <<0, 1, 2>>,
     <<3, 4, 5>>,
     <<6, 7, 8>>,
     <<0, 3, 6>>,
     <<1, 4, 7>>,
     <<2, 5, 8>>,
     <<0, 4, 8>>,
     <<2, 4, 6>> >>

MinOf(S) == CHOOSE x \in S : \A y \in S : x <= y
MaxOf(S) == CHOOSE x \in S : \A y \in S : x >= y

(***************************************************************************)
(* getWinner: the first line of LINES, in order, whose three cells hold    *)
(* the same non-null mark.                                                 *)
(***************************************************************************)
lineMatches_two(b, line) ==
  /\ b[line[1]] # Null
  /\ b[line[1]] = b[line[2]]

\* v && v === board[b] && v === board[c]
lineMatches(b, line) ==
  /\ b[line[1]] # Null
  /\ b[line[1]] = b[line[2]]
  /\ b[line[1]] = b[line[3]]

getWinner_lastMatch(b) ==
  LET hits == {i \in 1..Len(LINES) : lineMatches(b, LINES[i])}
  IN  IF hits = {}
      THEN [winner |-> Null, line |-> NullLine]
      ELSE [winner |-> b[LINES[MaxOf(hits)][1]], line |-> LINES[MaxOf(hits)]]

getWinner(b) ==
  LET hits == {i \in 1..Len(LINES) : lineMatches(b, LINES[i])}
  IN  IF hits = {}
      THEN [winner |-> Null, line |-> NullLine]
      ELSE [winner |-> b[LINES[MinOf(hits)][1]], line |-> LINES[MinOf(hits)]]

allOccupied_some(b) == \E i \in Indices : b[i] # Null

\* board.every((c) => c !== null)
allOccupied(b) == \A i \in Indices : b[i] # Null

noWinner_inverted(b) == getWinner(b).winner # Null

\* getWinner(board).winner === null
noWinner(b) == getWinner(b).winner = Null

isDraw(b) == allOccupied(b) /\ noWinner(b)

(***************************************************************************)
(* emptyCells: the indices of the null cells, ascending.                   *)
(***************************************************************************)
IndexSeq == [k \in 1..BoardLen |-> k - 1]

emptyCells(b) ==
  SelectSeq(IndexSeq, LAMBDA i : b[i] = Null)

slice_alias(b) == [cells |-> b, shared |-> TRUE]

\* board.slice(): a new array with the same cells; shared tells whether
\* the result is the very array it was taken from, so that a write to the
\* result is a write to that array as well
slice(b) == [cells |-> b, shared |-> FALSE]

place_noWrite(b, idx, mark) == b

\* next[idx] = mark, next holding the cells b
place(b, idx, mark) == [b EXCEPT ![idx] = mark]

(***************************************************************************)
(* minimax: the score of board b with the given side to move, depth plies  *)
(* below the root move.  It is a recursive function of (board, isAiTurn,   *)
(* depth); ai and human are the same in every recursive call.              *)
(***************************************************************************)
winScore_negated(depth) == depth - 10

\* if (winner === ai) return 10 - depth
winScore(depth) == 10 - depth

lossScore_negated(depth) == 10 - depth

\* if (winner === human) return depth - 10
lossScore(depth) == depth - 10

nextDepth_same(depth) == depth

\* depth + 1, the depth passed to the recursive call
nextDepth(depth) == depth + 1

\* One minimax call, with what it leaves behind:
\*   score    the value returned
\*   after    the cells of the array passed as board when the call ends
\*   deepest  the deepest frame reached, the call itself being frame level
\*   threw    the call stack was exhausted; nothing is returned
minimaxCall(b0, isAiTurn0, a, h, depth0, level0) ==
  LET mm[b \in Boards, isAiTurn \in BOOLEAN, depth \in Nat,
         level \in 1..(StackLimit + 1)] ==
        LET winner == getWinner(b).winner
            empties == emptyCells(b)
            \* one iteration per empty cell: next = board.slice(),
            \* next[idx] = mark, best = max or min of best and the score
            loop[k \in 1..(BoardLen + 1), cur \in Boards, best \in Int,
                 deepest \in 1..(StackLimit + 1)] ==
              IF k > Len(empties)
              THEN [score |-> best, after |-> cur, deepest |-> deepest,
                    threw |-> FALSE]
              ELSE LET next == slice(cur)
                       r == mm[place(next.cells, empties[k],
                                     IF isAiTurn THEN a ELSE h),
                               ~isAiTurn, nextDepth(depth), level + 1]
                       curAfter == IF next.shared THEN r.after ELSE cur
                   IN  IF r.threw
                       THEN [score |-> best, after |-> curAfter,
                             deepest |-> r.deepest, threw |-> TRUE]
                       ELSE loop[k + 1, curAfter,
                                 IF isAiTurn THEN MaxOf({best, r.score})
                                             ELSE MinOf({best, r.score}),
                                 MaxOf({deepest, r.deepest})]
        IN  IF level > StackLimit
            THEN [score |-> 0, after |-> b, deepest |-> level, threw |-> TRUE]
            ELSE IF winner = a
            THEN [score |-> winScore(depth), after |-> b, deepest |-> level,
                  threw |-> FALSE]
            ELSE IF winner = h
            THEN [score |-> lossScore(depth), after |-> b, deepest |-> level,
                  threw |-> FALSE]
            ELSE IF allOccupied(b)
            THEN [score |-> 0, after |-> b, deepest |-> level, threw |-> FALSE]
            ELSE loop[1, b, IF isAiTurn THEN -Infinity ELSE Infinity, level]
  IN  mm[b0, isAiTurn0, depth0, level0]

minimax(b0, isAiTurn0, a, h, depth0) ==
  minimaxCall(b0, isAiTurn0, a, h, depth0, 1).score

(***************************************************************************)
(* getBestMove.                                                            *)
(***************************************************************************)
noEmpties_offByOne(empties) == Len(empties) <= 1

\* if (empties.length === 0) return null
noEmpties(empties) == Len(empties) = 0

updateBest_noTies(acc, idx, score) ==
  IF score > acc.bestScore
  THEN [bestScore |-> score, bestMoves |-> <<idx>>]
  ELSE acc

\* the body of the loop over the root moves, after the score is known
updateBest(acc, idx, score) ==
  IF score > acc.bestScore
  THEN [bestScore |-> score, bestMoves |-> <<idx>>]
  ELSE IF score = acc.bestScore
  THEN [bestScore |-> acc.bestScore, bestMoves |-> Append(acc.bestMoves, idx)]
  ELSE acc

\* the loop over the root moves: bestScore and bestMoves when it ends, the
\* score computed in each iteration, in the order of empties, the cells of
\* the caller's board when it ends, and the deepest minimax frame reached
rootLoop(b, a, h) ==
  LET empties == emptyCells(b)
      loop[k \in 1..(BoardLen + 1),
           acc \in [bestScore : Int, bestMoves : Seq(Indices)],
           scores \in Seq(Int), cur \in Boards,
           deepest \in 0..(StackLimit + 1)] ==
        IF k > Len(empties)
        THEN [bestScore |-> acc.bestScore, bestMoves |-> acc.bestMoves,
              scores |-> scores, after |-> cur, deepest |-> deepest,
              threw |-> FALSE]
        ELSE LET next == slice(cur)
                 r == minimaxCall(place(next.cells, empties[k], a), FALSE,
                                  a, h, 0, 1)
                 curAfter == IF next.shared THEN r.after ELSE cur
             IN  IF r.threw
                 THEN [bestScore |-> acc.bestScore,
                       bestMoves |-> acc.bestMoves, scores |-> scores,
                       after |-> curAfter, deepest |-> r.deepest,
                       threw |-> TRUE]
                 ELSE loop[k + 1, updateBest(acc, empties[k], r.score),
                           Append(scores, r.score), curAfter,
                           MaxOf({deepest, r.deepest})]
  IN  loop[1, [bestScore |-> -Infinity, bestMoves |-> <<>>], <<>>, b, 0]

\* Math.floor(Math.random() * len), Math.random() being n / RandRes
randomIndex(n, len) == (n * len) \div RandRes

pick_position(moves, n) == randomIndex(n, Len(moves))

\* bestMoves[Math.floor(Math.random() * bestMoves.length)]
pick(moves, n) == moves[randomIndex(n, Len(moves)) + 1]

(***************************************************************************)
(* The state machine: a board is drawn, then each function is called on it *)
(* at most once.                                                           *)
(***************************************************************************)
FAIL_RETRIES_MAX == 3
NullCode == ""
NoTimer == [pending |-> FALSE, result |-> "playing", difficulty |-> "balanced"]

\* the initial values of the useState hooks
useStateInit ==
  /\ turn = "human"
  /\ result = "playing"
  /\ winningLine = NullLine
  /\ promoCode = NullCode
  /\ difficulty = "balanced"
  /\ endModalOpen = FALSE
  /\ failRetriesLeft = FAIL_RETRIES_MAX
  /\ aiTimer = NoTimer

InitRest ==
  /\ ai = AI
  /\ human = HUMAN
  /\ done = {}
  /\ retWinner = [winner |-> Null, line |-> NullLine]
  /\ retDraw = FALSE
  /\ bestScore = -Infinity
  /\ bestMoves = <<>>
  /\ rootScores = <<>>
  /\ retMove = NullIndex
  /\ retScore = 0
  /\ callDepth = 0
  /\ threw = FALSE
  /\ argTurn = FALSE
  /\ argDepth = 0

(***************************************************************************)
(* The values and the module state of the server (server/index.js).        *)
(* Strings that the server parses (link codes, update texts, promo codes)  *)
(* are sequences of one-character strings.                                 *)
(***************************************************************************)
LINK_TTL_MS == 1000 * 60 * 60
\* a poll is skipped when the last one is less than this many ms old
PollGap == 1200
\* Date.now() when the server module is loaded
StartNow == 10000
\* by how much the clock may advance between two requests
ClockSteps == {600, LINK_TTL_MS}

\* chat ids are numbers in the updates and strings in the records
ChatIds == {101, 202}
NoChatId == 0
NullChat == ""
\* what createLinkCode() may return
Codes == {<<"X", "O", "A">>, <<"X", "O", "B">>}
NoRec == [present |-> FALSE, createdAt |-> 0, chatId |-> NullChat]
NullText == <<>>
NullName == ""
NoMessage == [sent |-> FALSE, chat_id |-> NullChat, event |-> "", promo |-> <<>>]
\* a value of a request that is a string, and one that is not
Str(chars) == [isString |-> TRUE, chars |-> chars]
NotAString == [isString |-> FALSE, chars |-> <<>>]
NoResponse ==
  [seq |-> 0, route |-> "", event |-> "", promo |-> NotAString,
   code |-> NotAString, status |-> 0, error |-> "", linked |-> FALSE]

\* the module-level state of a server that has handled no request; the
\* environment is the one of a deployment with a bot token and no
\* fallback chat
serverLoaded ==
  /\ linkMap = [c \in Codes |-> NoRec]
  /\ botUsername = NullName
  /\ updatesOffset = 0
  /\ lastPollAt = 0
  /\ now = StartNow
  /\ ticks = 0
  /\ updates = <<>>
  /\ response = NoResponse
  /\ outbox = NoMessage
  /\ issued = {}
  /\ started = {}

serverIdle ==
  /\ serverLoaded
  /\ token = TRUE
  /\ envChatId = NullChat

\* useState('idle') and useRef(false) of the notification; no request was
\* made yet
telegramInit ==
  /\ telegramStatus = "idle"
  /\ telegramSentRef = FALSE
  /\ inFlight = 0
  /\ roundRequests = <<>>

InitEval ==
  /\ board \in Boards
  /\ InitRest
  /\ telegramInit
  /\ serverIdle
  /\ useStateInit

InitMove ==
  /\ board \in {b \in Boards : Len(emptyCells(b)) <= MaxEmpty}
  /\ InitRest
  /\ telegramInit
  /\ serverIdle
  /\ useStateInit

InitFrame ==
  /\ board \in {b \in Boards : Len(emptyCells(b)) <= FrameEmpty}
  /\ InitRest
  /\ telegramInit
  /\ serverIdle
  /\ useStateInit

count(b, mark) == Cardinality({i \in Indices : b[i] = mark})

\* the boards of alternate play in which the human moved first
InitScore ==
  /\ board \in {b \in Boards :
                 /\ Len(emptyCells(b)) <= ScoreEmpty
                 /\ count(b, HUMAN) - count(b, AI) \in {0, 1}}
  /\ InitRest
  /\ telegramInit
  /\ serverIdle
  /\ useStateInit

CallGetWinner ==
  /\ "getWinner" \notin done
  /\ done' = done \cup {"getWinner"}
  /\ retWinner' = getWinner(board)
  /\ UNCHANGED <<board, ai, human, retDraw, bestScore, bestMoves, rootScores,
                 retMove, argTurn, argDepth, retScore, callDepth, threw,
                 appVars, notifyVars, serverVars>>

CallIsDraw ==
  /\ "isDraw" \notin done
  /\ done' = done \cup {"isDraw"}
  /\ retDraw' = isDraw(board)
  /\ UNCHANGED <<board, ai, human, retWinner, bestScore, bestMoves, rootScores,
                 retMove, argTurn, argDepth, retScore, callDepth, threw,
                 appVars, notifyVars, serverVars>>

CallGetBestMove ==
  /\ "getBestMove" \notin done
  /\ done' = done \cup {"getBestMove"}
  /\ IF noEmpties(emptyCells(board))
     THEN /\ retMove' = NullIndex
          /\ UNCHANGED <<board, bestScore, bestMoves, rootScores, callDepth,
                         threw>>
     ELSE \E acc \in {rootLoop(board, ai, human)} :
            /\ board' = acc.after
            /\ bestScore' = acc.bestScore
            /\ bestMoves' = acc.bestMoves
            /\ rootScores' = acc.scores
            /\ callDepth' = acc.deepest
            /\ threw' = acc.threw
            /\ IF acc.threw
               THEN retMove' = NullIndex
               ELSE \E n \in 0..(RandRes - 1) :
                      retMove' = pick(acc.bestMoves, n)
  /\ UNCHANGED <<ai, human, retWinner, retDraw, argTurn, argDepth, retScore,
                 appVars, notifyVars, serverVars>>

\* minimax(board, isAiTurn, ai, human, depth): it is the AI's turn when the
\* human is a mark ahead, and depth plies of the search led to the board, so
\* that at least depth of its cells are occupied
CallMinimax ==
  /\ "minimax" \notin done
  /\ done' = done \cup {"minimax"}
  /\ \E isAiTurn \in BOOLEAN, depth \in 0..ScoreDepth :
       /\ isAiTurn <=> count(board, human) > count(board, ai)
       /\ depth + Len(emptyCells(board)) <= BoardLen
       /\ argTurn' = isAiTurn
       /\ argDepth' = depth
       /\ \E r \in {minimaxCall(board, isAiTurn, ai, human, depth, 1)} :
            /\ board' = r.after
            /\ retScore' = IF r.threw THEN retScore ELSE r.score
            /\ callDepth' = r.deepest
            /\ threw' = r.threw
  /\ UNCHANGED <<ai, human, retWinner, retDraw, bestScore, bestMoves,
                 rootScores, retMove, appVars, notifyVars, serverVars>>

NextEval == CallGetWinner \/ CallIsDraw
NextMove == CallGetBestMove

SpecEval == InitEval /\ [][NextEval]_vars
SpecMove == InitMove /\ [][NextMove]_vars

NextScore == CallMinimax \/ CallGetBestMove
SpecScore == InitScore /\ [][NextScore]_vars

NextFrame == CallGetWinner \/ CallIsDraw \/ CallGetBestMove
SpecFrame == InitFrame /\ [][NextFrame]_vars

(***************************************************************************)
(* The App component: the round state, its event handlers and the AI move  *)
(* effect.  A handler runs to completion, then React renders and runs the  *)
(* effects whose dependencies changed; an action is the handler together   *)
(* with those effects.  The notification state the handlers also touch     *)
(* (telegramStatus, telegramSentRef) has no influence on the round state:  *)
(* the handlers are written here for the round state, SpecGame, SpecSmart  *)
(* and SpecRetry follow the round state alone, and SpecTelegram follows    *)
(* both.  The copied flag of the promo button is left out.                 *)
(***************************************************************************)
Difficulties == {"soft", "balanced", "smart"}
Results == {"playing", "win", "loss", "draw"}

\* generatePromoCode(): some code of five digits
PromoCodes == {"04821", "93310"}

\* Array(9).fill(null)
EmptyBoard == [i \in Indices |-> Null]

lockBoard_resultOnly == result # "playing"

lockBoard == result # "playing" \/ turn # "human"

isFailResult == result = "loss" \/ result = "draw"

aiMoveEffect_noCleanup(newTurn, newResult, newDifficulty) ==
  IF <<newTurn, newResult, newDifficulty>> = <<turn, result, difficulty>>
  THEN aiTimer
  ELSE IF newResult = "playing" /\ newTurn = "ai"
  THEN [pending |-> TRUE, result |-> newResult, difficulty |-> newDifficulty]
  ELSE aiTimer

\* The AI move effect, run when turn, result or difficulty changed: the
\* cleanup clears the timeout of the previous run, and a new one is set
\* when the round is on and it is the AI's turn.  The callback closes over
\* result and difficulty.
aiMoveEffect(newTurn, newResult, newDifficulty) ==
  IF <<newTurn, newResult, newDifficulty>> = <<turn, result, difficulty>>
  THEN aiTimer
  ELSE [pending |-> newResult = "playing" /\ newTurn = "ai",
        result |-> newResult, difficulty |-> newDifficulty]

\* The effect on result: open the end dialog whenever the round ends.
endModalEffect(open, newResult) ==
  IF newResult # result /\ newResult # "playing" THEN TRUE ELSE open

finalizeIfEnded_neverEnds(nextBoard, code) ==
  [ended |-> FALSE, winningLine |-> winningLine, promoCode |-> promoCode,
   result |-> result]

\* finalizeIfEnded(nextBoard), code being what generatePromoCode() returns
\* if called: whether the round ended, and the state it sets
finalizeIfEnded(nextBoard, code) ==
  LET w == getWinner(nextBoard)
  IN  IF w.winner = HUMAN
      THEN [ended |-> TRUE, winningLine |-> w.line, promoCode |-> code,
            result |-> "win"]
      ELSE IF w.winner = AI
      THEN [ended |-> TRUE, winningLine |-> w.line, promoCode |-> promoCode,
            result |-> "loss"]
      ELSE IF isDraw(nextBoard)
      THEN [ended |-> TRUE, winningLine |-> winningLine,
            promoCode |-> promoCode, result |-> "draw"]
      ELSE [ended |-> FALSE, winningLine |-> winningLine,
            promoCode |-> promoCode, result |-> result]

\* the outcomes of finalizeIfEnded over the codes that may be generated
finalizeOutcomes(nextBoard) ==
  {finalizeIfEnded(nextBoard, code) : code \in PromoCodes}

resetRound_keepsPromo ==
  /\ board' = EmptyBoard
  /\ turn' = "human"
  /\ result' = "playing"
  /\ winningLine' = NullLine
  /\ UNCHANGED promoCode
  /\ endModalOpen' = FALSE
  /\ aiTimer' = aiMoveEffect("human", "playing", difficulty)

resetRound ==
  /\ board' = EmptyBoard
  /\ turn' = "human"
  /\ result' = "playing"
  /\ winningLine' = NullLine
  /\ promoCode' = NullCode
  /\ endModalOpen' = FALSE
  /\ aiTimer' = aiMoveEffect("human", "playing", difficulty)

\* Math.max(0, Math.min(FAIL_RETRIES_MAX, next))
setFailRetriesLeftPersist(next) ==
  failRetriesLeft' = MaxOf({0, MinOf({FAIL_RETRIES_MAX, next})})

onTryAgain ==
  IF result = "loss" \/ result = "draw"
  THEN IF failRetriesLeft <= 0
       THEN UNCHANGED <<board, appVars>>
       ELSE /\ setFailRetriesLeftPersist(failRetriesLeft - 1)
            /\ resetRound
            /\ UNCHANGED difficulty
  ELSE /\ resetRound
       /\ UNCHANGED <<difficulty, failRetriesLeft>>

\* the "try again" button of the end dialog, rendered while the round is
\* over and the dialog is open
OnTryAgain ==
  /\ result # "playing" /\ endModalOpen
  /\ onTryAgain
  /\ UNCHANGED <<callVars, notifyVars, serverVars>>

onResetClick ==
  IF result = "loss" \/ result = "draw"
  THEN onTryAgain
  ELSE /\ resetRound
       /\ UNCHANGED <<difficulty, failRetriesLeft>>

\* the reset button, always enabled
OnResetClick ==
  /\ onResetClick
  /\ UNCHANGED <<callVars, notifyVars, serverVars>>

\* the close button of the end dialog, rendered after a loss or a draw
CloseEndModal ==
  /\ result # "playing" /\ endModalOpen
  /\ isFailResult
  /\ endModalOpen' = FALSE
  /\ UNCHANGED <<board, callVars, turn, result, winningLine, promoCode,
                 difficulty, failRetriesLeft, aiTimer,
                 notifyVars, serverVars>>

\* the difficulty select, disabled once the round is over
SetDifficulty ==
  /\ result = "playing"
  /\ \E d \in Difficulties \ {difficulty} :
       /\ difficulty' = d
       /\ aiTimer' = aiMoveEffect(turn, result, d)
  /\ UNCHANGED <<board, callVars, turn, result, winningLine, promoCode,
                 failRetriesLeft, endModalOpen,
                 notifyVars, serverVars>>

onHumanMove(index) ==
  IF lockBoard \/ board[index] # Null
  THEN UNCHANGED <<board, appVars>>
  ELSE \E fin \in finalizeOutcomes(place(slice(board).cells, index, HUMAN)) :
         /\ board' = place(slice(board).cells, index, HUMAN)
         /\ winningLine' = fin.winningLine
         /\ promoCode' = fin.promoCode
         /\ result' = fin.result
         /\ turn' = IF fin.ended THEN turn ELSE "ai"
         /\ endModalOpen' = endModalEffect(endModalOpen, fin.result)
         /\ aiTimer' = aiMoveEffect(turn', fin.result, difficulty)
         /\ UNCHANGED <<difficulty, failRetriesLeft>>

\* a click on any cell
OnHumanMove ==
  /\ \E index \in Indices : onHumanMove(index)
  /\ UNCHANGED <<callVars, notifyVars, serverVars>>

mistakeChance_always(d) == 55

\* difficulty === 'soft' ? 0.55 : difficulty === 'balanced' ? 0.18 : 0,
\* in hundredths
mistakeChance(d) == IF d = "soft" THEN 55 ELSE IF d = "balanced" THEN 18 ELSE 0

chooseAiMove_anyCell(nextBoard, d, best, n1, n2, n3) ==
  LET empties == emptyCells(nextBoard)
  IN  IF Len(empties) = 0 THEN NullIndex
      ELSE IF mistakeChance(d) > 0 /\ n1 * 100 < mistakeChance(d) * RandRes
      THEN IndexSeq[randomIndex(n2, BoardLen) + 1]
      ELSE pick(best.bestMoves, n3)

\* chooseAiMove(nextBoard) in a render with difficulty d; best is what the
\* loop of getBestMove computes for nextBoard, and n1, n2, n3 are what the
\* calls of Math.random() return, in RandRes-ths
chooseAiMove(nextBoard, d, best, n1, n2, n3) ==
  LET empties == emptyCells(nextBoard)
  IN  IF Len(empties) = 0 THEN NullIndex
      ELSE IF mistakeChance(d) > 0 /\ n1 * 100 < mistakeChance(d) * RandRes
      THEN empties[randomIndex(n2, Len(empties)) + 1]
      ELSE pick(best.bestMoves, n3)

\* The callback of the AI move effect's timeout: setBoard((prev) => ...),
\* prev being the current board.
aiMoveTimeout ==
  IF aiTimer.result # "playing" \/ noEmpties(emptyCells(board))
  THEN /\ aiTimer' = [aiTimer EXCEPT !.pending = FALSE]
       /\ UNCHANGED <<board, turn, result, winningLine, promoCode,
                      difficulty, failRetriesLeft, endModalOpen>>
  ELSE \E best \in {rootLoop(board, AI, HUMAN)} :
       \E move \in {chooseAiMove(best.after, aiTimer.difficulty, best,
                                 r[1], r[2], r[3]) :
                      r \in (0..(RandRes - 1)) \X (0..(RandRes - 1))
                              \X (0..(RandRes - 1))} :
       \E fin \in finalizeOutcomes(place(slice(best.after).cells, move, AI)) :
         /\ ~best.threw
         /\ board' = place(slice(best.after).cells, move, AI)
         /\ winningLine' = fin.winningLine
         /\ promoCode' = fin.promoCode
         /\ result' = fin.result
         /\ turn' = IF fin.ended THEN turn ELSE "human"
         /\ endModalOpen' = endModalEffect(endModalOpen, fin.result)
         /\ aiTimer' = aiMoveEffect(turn', fin.result, difficulty)
         /\ UNCHANGED <<difficulty, failRetriesLeft>>

\* the timeout fires
AiTimerFires ==
  /\ aiTimer.pending
  /\ aiMoveTimeout
  /\ UNCHANGED <<callVars, notifyVars, serverVars>>

\* The page after the mount effect: the stored retry counter, if it is a
\* number in 0..FAIL_RETRIES_MAX, replaces the initial one.
InitGame ==
  /\ board = EmptyBoard
  /\ InitRest
  /\ telegramInit
  /\ serverIdle
  /\ turn = "human"
  /\ result = "playing"
  /\ winningLine = NullLine
  /\ promoCode = NullCode
  /\ difficulty = "balanced"
  /\ endModalOpen = FALSE
  /\ failRetriesLeft \in 0..MinOf({StoredRetries, FAIL_RETRIES_MAX})
  /\ aiTimer = NoTimer

NextGame ==
  \/ OnHumanMove
  \/ AiTimerFires
  \/ SetDifficulty
  \/ OnTryAgain
  \/ OnResetClick
  \/ CloseEndModal

SpecGame == InitGame /\ [][NextGame]_vars

\* A page on which 'smart' was selected and the select is left alone.
InitSmart ==
  /\ board = EmptyBoard
  /\ InitRest
  /\ telegramInit
  /\ serverIdle
  /\ turn = "human"
  /\ result = "playing"
  /\ winningLine = NullLine
  /\ promoCode = NullCode
  /\ difficulty = "smart"
  /\ endModalOpen = FALSE
  /\ failRetriesLeft \in 0..MinOf({StoredRetries, FAIL_RETRIES_MAX})
  /\ aiTimer = [pending |-> FALSE, result |-> "playing", difficulty |-> "smart"]

NextSmart ==
  \/ OnHumanMove
  \/ AiTimerFires
  \/ OnTryAgain
  \/ OnResetClick
  \/ CloseEndModal

SpecSmart == InitSmart /\ [][NextSmart]_vars

\* What localStorage may hold under the key of the retry counter, as the
\* characters of the string; the empty sequence stands for an absent item
\* and for an empty one, both falsy.
StoredItems ==
  {<<>>, <<"1">>, <<"3">>, <<"4">>, <<"-", "1">>, <<"x">>, <<" ", "1", "k">>}

DigitChars == <<"0", "1", "2", "3", "4", "5", "6", "7", "8", "9">>
NaN == [finite |-> FALSE, value |-> 0]

\* Number.parseInt(s, 10): leading blanks are skipped, a sign is read, and
\* the longest run of decimal digits that follows is the value; NaN when
\* there is no digit
parseInt(s) ==
  LET n == Len(s)
      start == MinOf({k \in 1..n : s[k] # " "} \cup {n + 1})
      neg == start <= n /\ s[start] = "-"
      from == IF start <= n /\ s[start] \in {"-", "+"} THEN start + 1 ELSE start
      stop == MinOf({k \in from..n : s[k] \notin {DigitChars[d] : d \in 1..10}} \cup {n + 1})
      val[k \in (from - 1)..n] ==
        IF k < from THEN 0
        ELSE val[k - 1] * 10
               + (CHOOSE d \in 0..9 : DigitChars[d + 1] = s[k])
  IN  IF stop = from THEN NaN
      ELSE [finite |-> TRUE,
            value |-> IF neg THEN 0 - val[stop - 1] ELSE val[stop - 1]]

mountRetries_unchecked(storedRetries) ==
  LET parsed == IF storedRetries # <<>> THEN parseInt(storedRetries) ELSE NaN
  IN  IF parsed.finite THEN parsed.value ELSE FAIL_RETRIES_MAX

\* the retry counter the mount effect sets for a stored item
mountRetries(storedRetries) ==
  LET parsed == IF storedRetries # <<>> THEN parseInt(storedRetries) ELSE NaN
  IN  IF parsed.finite /\ parsed.value >= 0 /\ parsed.value <= FAIL_RETRIES_MAX
      THEN parsed.value
      ELSE FAIL_RETRIES_MAX

\* The page after the mount effect, whatever the stored item; the
\* difficulty is the initial one and the select is left alone.
InitRetry ==
  /\ board = EmptyBoard
  /\ InitRest
  /\ telegramInit
  /\ serverIdle
  /\ turn = "human"
  /\ result = "playing"
  /\ winningLine = NullLine
  /\ promoCode = NullCode
  /\ difficulty = "balanced"
  /\ endModalOpen = FALSE
  /\ failRetriesLeft \in {mountRetries(item) : item \in StoredItems}
  /\ aiTimer = NoTimer

NextRetry ==
  \/ OnHumanMove
  \/ AiTimerFires
  \/ OnTryAgain
  \/ OnResetClick
  \/ CloseEndModal

SpecRetry == InitRetry /\ [][NextRetry]_vars

(***************************************************************************)
(* The notification of the App component: the effect on result and         *)
(* promoCode that requests a Telegram message, and the settling of the     *)
(* request.  The linkCode of the request body, taken from the link state,  *)
(* is left out.                                                            *)
(***************************************************************************)
telegramEffect_anyEnd(newResult, newPromoCode, sentRef, status) ==
  IF <<newResult, newPromoCode>> = <<result, promoCode>> \/ sentRef
  THEN [sentRef |-> sentRef, status |-> status, requests |-> <<>>]
  ELSE IF newResult = "win" /\ newPromoCode # NullCode
  THEN [sentRef |-> TRUE, status |-> "sending",
        requests |-> <<[event |-> "win", promo |-> newPromoCode]>>]
  ELSE IF newResult # "playing"
  THEN [sentRef |-> TRUE, status |-> "sending",
        requests |-> <<[event |-> "loss", promo |-> NullCode]>>]
  ELSE [sentRef |-> sentRef, status |-> status, requests |-> <<>>]

\* The effect with dependencies [result, promoCode], run after a render
\* with newResult and newPromoCode when the handler left the ref and the
\* status as given: the values it leaves, and the bodies it hands to
\* sendTelegram
telegramEffect(newResult, newPromoCode, sentRef, status) ==
  IF <<newResult, newPromoCode>> = <<result, promoCode>> \/ sentRef
  THEN [sentRef |-> sentRef, status |-> status, requests |-> <<>>]
  ELSE IF newResult = "win" /\ newPromoCode # NullCode
  THEN [sentRef |-> TRUE, status |-> "sending",
        requests |-> <<[event |-> "win", promo |-> newPromoCode]>>]
  ELSE IF newResult = "loss"
  THEN [sentRef |-> TRUE, status |-> "sending",
        requests |-> <<[event |-> "loss", promo |-> NullCode]>>]
  ELSE [sentRef |-> sentRef, status |-> status, requests |-> <<>>]

\* the render that follows a handler, which left the ref, the status and
\* the log of the round's requests as given
notifyAfter(sentRef, status, log) ==
  \E e \in {telegramEffect(result', promoCode', sentRef, status)} :
    /\ telegramSentRef' = e.sentRef
    /\ telegramStatus' = e.status
    /\ roundRequests' = log \o e.requests
    /\ inFlight' = inFlight + Len(e.requests)

\* the cells of the human's first mark: up to symmetry a round opens in
\* the centre, in a corner or on an edge
OpeningCells == {<<4, 0, 1>>[k] : k \in 1..MinOf({Openings, 3})}

NotifiedHumanMove ==
  /\ \E index \in (IF board = EmptyBoard THEN OpeningCells ELSE Indices) :
       onHumanMove(index)
  /\ notifyAfter(telegramSentRef, telegramStatus, roundRequests)
  /\ UNCHANGED <<callVars, serverVars>>

NotifiedAiMove ==
  /\ aiTimer.pending
  /\ aiMoveTimeout
  /\ notifyAfter(telegramSentRef, telegramStatus, roundRequests)
  /\ UNCHANGED <<callVars, serverVars>>

\* A restart: resetRound also sets the status to 'idle' and clears the ref,
\* unless onTryAgain returned before it.  A round is restarted only while
\* fewer than MaxInFlight requests are unanswered.
notifiedRestart ==
  /\ inFlight < MaxInFlight
  /\ IF isFailResult /\ failRetriesLeft <= 0
     THEN UNCHANGED notifyVars
     ELSE notifyAfter(FALSE, "idle", <<>>)
  /\ UNCHANGED <<callVars, serverVars>>

NotifiedTryAgain ==
  /\ result # "playing" /\ endModalOpen
  /\ onTryAgain
  /\ notifiedRestart

NotifiedResetClick ==
  /\ onResetClick
  /\ notifiedRestart

\* sendTelegram's promise settles: fulfilled when the server answered ok,
\* rejected otherwise
TelegramSettles ==
  /\ inFlight > 0
  /\ inFlight' = inFlight - 1
  /\ \E ok \in BOOLEAN : telegramStatus' = IF ok THEN "sent" ELSE "error"
  /\ UNCHANGED <<board, callVars, appVars, telegramSentRef, roundRequests,
                 serverVars>>

\* The page after the mount effect found one retry stored; the difficulty
\* is the initial one and the select is left alone.
InitTelegram ==
  /\ board = EmptyBoard
  /\ InitRest
  /\ telegramInit
  /\ serverIdle
  /\ turn = "human"
  /\ result = "playing"
  /\ winningLine = NullLine
  /\ promoCode = NullCode
  /\ difficulty = "balanced"
  /\ endModalOpen = FALSE
  /\ failRetriesLeft = mountRetries(<<"1">>)
  /\ aiTimer = NoTimer

NextTelegram ==
  \/ NotifiedHumanMove
  \/ NotifiedAiMove
  \/ NotifiedTryAgain
  \/ NotifiedResetClick
  \/ CloseEndModal
  \/ TelegramSettles

SpecTelegram == InitTelegram /\ [][NextTelegram]_vars

(***************************************************************************)
(* The server (server/index.js): the link codes, the polling of Telegram   *)
(* updates and the three routes.  A request is handled at one instant, the *)
(* calls of the Telegram API it awaits included; what they return is       *)
(* drawn with \E.  getUpdates returns every update Telegram holds from the *)
(* offset on (MaxUpdates is below its limit of 50).                        *)
(***************************************************************************)
Whitespace == {" ", "\n"}
StartCmd == <<"/", "s", "t", "a", "r", "t">>
UpperChars == <<"S", "T", "A", "R">>
LowerChars == <<"s", "t", "a", "r">>
\* the update_id of the first update
FirstUpdateId == 500

\* String.prototype.trim
trim(s) ==
  LET kept == {k \in 1..Len(s) : s[k] \notin Whitespace}
  IN  IF kept = {} THEN <<>> ELSE SubSeq(s, MinOf(kept), MaxOf(kept))

\* the lower case of the letters of '/start', for the i flag
toLower(c) ==
  IF \E k \in 1..Len(UpperChars) : UpperChars[k] = c
  THEN LowerChars[CHOOSE k \in 1..Len(UpperChars) : UpperChars[k] = c]
  ELSE c

\* extractStartCode(text): trimmed.match(/^\/start(?:\s+(.+))?$/i), then
\* (m[1] || '').trim(); the group is what follows the longest run of
\* white space that leaves it non-empty and free of line breaks
extractStartCode(text) ==
  LET trimmed == trim(text)
      n == Len(trimmed)
      c == Len(StartCmd)
  IN  IF n < c \/ [k \in 1..c |-> toLower(trimmed[k])] # StartCmd THEN NullText
      ELSE IF n = c THEN NullText
      ELSE LET rest == SubSeq(trimmed, c + 1, n)
               splits == {j \in 1..(Len(rest) - 1) :
                            /\ \A k \in 1..j : rest[k] \in Whitespace
                            /\ \A k \in (j + 1)..Len(rest) : rest[k] # "\n"}
           IN  IF splits = {} THEN NullText
               ELSE trim(SubSeq(rest, MaxOf(splits) + 1, Len(rest)))

lookup_orAnyBound(map, code) ==
  IF code \in Codes THEN map[code]
  ELSE IF \E c \in Codes : map[c].chatId # NullChat
  THEN map[CHOOSE c \in Codes : map[c].chatId # NullChat]
  ELSE NoRec

\* linkMap.get(code)
lookup(map, code) == IF code \in Codes THEN map[code] ELSE NoRec

cleanupLinks_keepAll(map, t) == map

\* cleanupLinks() at time t
cleanupLinks(map, t) ==
  [code \in Codes |->
     IF map[code].present /\ t - map[code].createdAt > LINK_TTL_MS
     THEN NoRec ELSE map[code]]

\* The texts users send to the bot, each with the link code it is the
\* start command of (NullText if of none): the command as the deep link
\* sends it, the command in capitals with other white space, and the
\* command with more than the code.
StartText(code) == [chars |-> StartCmd \o <<" ">> \o code, intent |-> code]
Texts ==
  {StartText(code) : code \in Codes}
  \cup {[chars |-> <<" ", "/", "S", "T", "A", "R", "T", "\n", " ">>
                     \o <<"X", "O", "B">> \o <<" ">>,
         intent |-> <<"X", "O", "B">>],
        [chars |-> StartCmd \o <<" ", "X", "O", "A", " ", "x">>,
         intent |-> NullText]}

\* pollTelegramUpdates(token) when linkMap is map, fetched telling whether
\* getUpdates answered: the module state it leaves.  started collects, for every
\* update that carries a chat id and whose text is the start command of a
\* code that has a record, the code, the record's creation time and the
\* chat.
pollTelegramUpdates(map, fetched) ==
  LET same == [linkMap |-> map, lastPollAt |-> lastPollAt,
               updatesOffset |-> updatesOffset, started |-> started]
      cleaned == cleanupLinks(map, now)
      result_ == IF updatesOffset = 0 THEN updates
                 ELSE SelectSeq(updates,
                                LAMBDA u : u.update_id >= updatesOffset)
      loop[k \in 0..Len(result_)] ==
        IF k = 0
        THEN [linkMap |-> cleaned, lastPollAt |-> now,
              updatesOffset |-> updatesOffset, started |-> started]
        ELSE LET acc == loop[k - 1]
                 upd == result_[k]
                 offset == MaxOf({acc.updatesOffset, upd.update_id + 1})
                 code == extractStartCode(upd.text)
                 rec == lookup(acc.linkMap, code)
                 seen == IF /\ upd.chat # NoChatId
                            /\ upd.intent # NullText
                            /\ acc.linkMap[upd.intent].present
                         THEN {<<upd.intent,
                                 acc.linkMap[upd.intent].createdAt,
                                 ToString(upd.chat)>>}
                         ELSE {}
             IN  IF upd.chat = NoChatId \/ code = NullText \/ ~rec.present
                 THEN [acc EXCEPT !.updatesOffset = offset,
                                  !.started = @ \cup seen]
                 ELSE [acc EXCEPT !.updatesOffset = offset,
                                  !.started = @ \cup seen,
                                  !.linkMap[code] =
                                    [rec EXCEPT !.chatId = ToString(upd.chat)]]
  IN  IF now - lastPollAt < PollGap THEN same
      ELSE IF ~fetched THEN loop[0]
      ELSE loop[Len(result_)]

\* res.status(status).json(...) for a request; seq counts the requests
\* handled
respond(route, event, promo, code, status, error, linked) ==
  response' = [seq |-> response.seq + 1, route |-> route, event |-> event,
               promo |-> promo, code |-> code, status |-> status,
               error |-> error, linked |-> linked]

\* time passes
Tick ==
  /\ ticks < MaxTicks
  /\ ticks' = ticks + 1
  /\ \E d \in ClockSteps : now' = now + d
  /\ UNCHANGED <<board, callVars, appVars, notifyVars, token, envChatId,
                 linkMap, botUsername, lastPollAt, updatesOffset, updates,
                 response, outbox, issued, started>>

\* somebody sends the bot a message, or something without a chat happens
TelegramReceives ==
  /\ Len(updates) < MaxUpdates
  /\ \E chat \in ChatIds \cup {NoChatId}, text \in Texts :
       updates' = Append(updates,
                         [update_id |-> FirstUpdateId + Len(updates),
                          chat |-> chat, text |-> text.chars,
                          intent |-> text.intent])
  /\ UNCHANGED <<board, callVars, appVars, notifyVars, token, envChatId,
                 linkMap, botUsername, now, ticks, lastPollAt, updatesOffset,
                 response, outbox, issued, started>>

\* POST /api/telegram/link; getMe is what getBotUsername's request does
\* when no username is cached
PostLink ==
  /\ response.seq < MaxRequests
  /\ IF ~token
     THEN /\ respond("POST link", "", NotAString, NotAString, 500,
                     "Telegram is not configured", FALSE)
          /\ UNCHANGED <<linkMap, botUsername, issued>>
     ELSE \E code \in Codes, getMe \in {"username", "none", "throws"} :
            /\ linkMap' = [cleanupLinks(linkMap, now) EXCEPT
                             ![code] = [present |-> TRUE, createdAt |-> now,
                                        chatId |-> NullChat]]
            /\ issued' = issued \cup {code}
            /\ botUsername' = IF botUsername = NullName /\ getMe = "username"
                              THEN "bot" ELSE botUsername
            /\ IF botUsername = NullName /\ getMe = "throws"
               THEN respond("POST link", "", NotAString, NotAString, 500,
                            "Failed to create link", FALSE)
               ELSE respond("POST link", "", NotAString, Str(code), 200, "",
                            FALSE)
  /\ outbox' = NoMessage
  /\ UNCHANGED <<board, callVars, appVars, notifyVars, token, envChatId, now,
                 ticks, lastPollAt, updatesOffset, updates, started>>

\* the codes GET /api/telegram/link/:code is asked about: the codes that
\* may be created, one of them padded, one that never is, and a blank
Queries ==
  {<<"X", "O", "A">>, <<" ", "X", "O", "B">>, <<"X", "O", "Z">>, <<" ">>}

\* GET /api/telegram/link/:code; fetched tells whether getUpdates answered
GetLink ==
  /\ response.seq < MaxRequests
  /\ \E param \in Queries :
       \E code \in {trim(param)} :
       \E cleaned \in {cleanupLinks(linkMap, now)} :
         IF ~token
         THEN /\ respond("GET link", "", NotAString, Str(param), 500,
                         "Telegram is not configured", FALSE)
              /\ UNCHANGED <<linkMap, lastPollAt, updatesOffset, started>>
         ELSE IF code = <<>>
         THEN /\ respond("GET link", "", NotAString, Str(param), 400,
                         "Missing code", FALSE)
              /\ UNCHANGED <<linkMap, lastPollAt, updatesOffset, started>>
         ELSE IF ~lookup(cleaned, code).present
         THEN /\ respond("GET link", "", NotAString, Str(param), 404,
                         "Unknown code", FALSE)
              /\ linkMap' = cleaned
              /\ UNCHANGED <<lastPollAt, updatesOffset, started>>
         ELSE \E p \in {pollTelegramUpdates(cleaned, fetched) :
                          fetched \in BOOLEAN} :
                /\ linkMap' = p.linkMap
                /\ lastPollAt' = p.lastPollAt
                /\ updatesOffset' = p.updatesOffset
                /\ started' = p.started
                /\ respond("GET link", "", NotAString, Str(param), 200, "",
                           lookup(p.linkMap, code).chatId # NullChat)
  /\ outbox' = NoMessage
  /\ UNCHANGED <<board, callVars, appVars, notifyVars, token, envChatId,
                 botUsername, now, ticks, updates, issued>>

\* /^\d{5}$/.test(promo)
fiveDigits(chars) ==
  /\ Len(chars) = 5
  /\ \A k \in 1..Len(chars) : chars[k] \in {DigitChars[d] : d \in 1..10}

\* The bodies POST /api/telegram is sent: a victory with a promo code
\* and each kind of link code, a victory with each kind of promo that is
\* not five digits, a defeat with and without a link code, and a draw.
Promo == Str(<<"0", "4", "8", "2", "1">>)
Body(event, promo, linkCode) ==
  [event |-> event, promo |-> promo, linkCode |-> linkCode]
Bodies ==
  {Body("win", Promo, Str(code)) : code \in Codes}
  \cup {Body("win", Promo, linkCode) :
          linkCode \in {Str(<<"X", "O", "Z">>), Str(<<"X", "O", "A", " ">>),
                        Str(<<" ">>), NotAString}}
  \cup {Body("win", promo, Str(<<"X", "O", "A">>)) :
          promo \in {Str(<<"0", "4", "8", "2", "1", "7">>),
                     Str(<<"0", "4", "x", "2", "1">>), NotAString}}
  \cup {Body("loss", NotAString, linkCode) :
          linkCode \in {Str(<<"X", "O", "B">>), NotAString}}
  \cup {Body("draw", Promo, Str(<<"X", "O", "A">>))}

\* resolveTelegramChatId(token)
resolveTelegramChatId == envChatId

\* POST /api/telegram; fetched and sent tell whether getUpdates and
\* sendMessage answered
PostTelegram ==
  /\ response.seq < MaxRequests
  /\ \E body \in Bodies :
     \E event \in {body.event}, promo \in {body.promo},
        linkCode \in {body.linkCode} :
       IF event # "win" /\ event # "loss"
       THEN /\ respond("POST telegram", event, promo, linkCode, 400,
                       "Invalid event", FALSE)
            /\ outbox' = NoMessage
            /\ UNCHANGED <<linkMap, lastPollAt, updatesOffset, started>>
       ELSE IF event = "win" /\ (~promo.isString \/ ~fiveDigits(promo.chars))
       THEN /\ respond("POST telegram", event, promo, linkCode, 400,
                       "Invalid promo", FALSE)
            /\ outbox' = NoMessage
            /\ UNCHANGED <<linkMap, lastPollAt, updatesOffset, started>>
       ELSE IF ~token
       THEN /\ respond("POST telegram", event, promo, linkCode, 500,
                       "Telegram is not configured", FALSE)
            /\ outbox' = NoMessage
            /\ UNCHANGED <<linkMap, lastPollAt, updatesOffset, started>>
       ELSE \E p \in IF linkCode.isString /\ trim(linkCode.chars) # <<>>
                     THEN {[pollTelegramUpdates(linkMap, fetched) EXCEPT
                              !.linkMap = cleanupLinks(@, now)] :
                             fetched \in BOOLEAN}
                     ELSE {[linkMap |-> linkMap, lastPollAt |-> lastPollAt,
                            updatesOffset |-> updatesOffset,
                            started |-> started]} :
            \E chatId \in {IF linkCode.isString /\ trim(linkCode.chars) # <<>>
                           THEN lookup(p.linkMap, trim(linkCode.chars)).chatId
                           ELSE resolveTelegramChatId} :
              /\ linkMap' = p.linkMap
              /\ lastPollAt' = p.lastPollAt
              /\ updatesOffset' = p.updatesOffset
              /\ started' = p.started
              /\ IF chatId = NullChat
                 THEN /\ respond("POST telegram", event, promo, linkCode, 400,
                                 "Telegram is not connected", FALSE)
                      /\ outbox' = NoMessage
                 ELSE /\ outbox' = [sent |-> TRUE, chat_id |-> chatId,
                                    event |-> event,
                                    promo |-> IF event = "win"
                                              THEN promo.chars ELSE <<>>]
                      /\ \E sent \in BOOLEAN :
                           IF sent
                           THEN respond("POST telegram", event, promo,
                                        linkCode, 200, "", FALSE)
                           ELSE respond("POST telegram", event, promo,
                                        linkCode, 500,
                                        "Failed to send message", FALSE)
  /\ UNCHANGED <<board, callVars, appVars, notifyVars, token, envChatId,
                 botUsername, now, ticks, updates, issued>>

\* A server that was just started, with or without a bot token and a
\* fallback chat; no page is followed.
InitServer ==
  /\ board = EmptyBoard
  /\ InitRest
  /\ useStateInit
  /\ telegramInit
  /\ serverLoaded
  /\ token \in BOOLEAN
  /\ envChatId \in {NullChat, "900"}

NextServer ==
  \/ Tick
  \/ TelegramReceives
  \/ PostLink
  \/ GetLink
  \/ PostTelegram

SpecServer == InitServer /\ [][NextServer]_vars

TypeOK ==
  /\ board \in Boards
  /\ done \subseteq {"getWinner", "isDraw", "getBestMove", "minimax"}
  /\ retDraw \in BOOLEAN
  /\ retMove \in Indices \cup {NullIndex}
  /\ turn \in {"human", "ai"}
  /\ result \in Results
  /\ difficulty \in Difficulties
  /\ promoCode \in PromoCodes \cup {NullCode}
  /\ failRetriesLeft \in 0..FAIL_RETRIES_MAX
  /\ endModalOpen \in BOOLEAN
  /\ aiTimer.pending <=> (result = "playing" /\ turn = "ai")
  /\ telegramStatus \in {"idle", "sending", "sent", "error"}
  /\ telegramSentRef \in BOOLEAN
  /\ inFlight \in 0..MaxInFlight
  /\ token \in BOOLEAN
  /\ ticks \in 0..MaxTicks
  /\ Len(updates) <= MaxUpdates
  /\ response.seq \in 0..MaxRequests
  /\ issued \subseteq Codes

(***************************************************************************)
(* Vocabulary of the properties, defined on the board alone.               *)
(***************************************************************************)
LineSet == {LINES[i] : i \in 1..Len(LINES)}
HasLine(b, m) == \E l \in LineSet : \A k \in 1..3 : b[l[k]] = m
NoLine(b) == ~HasLine(b, HUMAN) /\ ~HasLine(b, AI)
Other(m) == IF m = HUMAN THEN AI ELSE HUMAN
EmptySet(b) == {i \in Indices : b[i] = Null}
Full(b) == EmptySet(b) = {}
\* the empty cells in which mark m would complete a line
Completing(b, m) == {i \in EmptySet(b) : HasLine([b EXCEPT ![i] = m], m)}
Range(seq) == {seq[k] : k \in 1..Len(seq)}
\* the k-th empty cell, in ascending order (k from 1)
NthEmpty(b, k) ==
  CHOOSE i \in EmptySet(b) : Cardinality({j \in EmptySet(b) : j < i}) = k - 1
\* the empty cells whose score, among the scores the selector computed for
\* the empty cells in ascending order, is the maximum
ArgMax(b, scores) ==
  {NthEmpty(b, k) : k \in {j \in 1..Len(scores) :
                              \A l \in 1..Len(scores) : scores[j] >= scores[l]}}

BoardC2 == [i \in Indices |-> <<"X", "O", "X", "O", "X", "O", "O", "X", "O">>[i + 1]]
BoardC8 == [i \in Indices |->
              <<"X", "X", Null, Null, "O", Null, Null, Null, Null>>[i + 1]]
BoardC9 == [i \in Indices |->
              <<"O", "O", Null, "X", "X", Null, Null, Null, Null>>[i + 1]]

(***************************************************************************)
(* C1: on a board where one mark has a completed line and the other has    *)
(* none, getWinner returns that mark and a triple that is one of the 8     *)
(* lines and whose three cells hold that mark.                             *)
(***************************************************************************)
C1_WinnerAndLine ==
  "getWinner" \in done =>
    \A m \in {HUMAN, AI} :
      (HasLine(board, m) /\ ~HasLine(board, Other(m))) =>
        /\ retWinner.winner = m
        /\ retWinner.line \in LineSet
        /\ \A k \in 1..3 : board[retWinner.line[k]] = m

C1_Witness ==
  /\ "getWinner" \in done
  /\ HasLine(board, AI) /\ ~HasLine(board, HUMAN)
  /\ Cardinality({l \in LineSet : \A k \in 1..3 : board[l[k]] = AI}) = 2
  /\ retWinner.winner = AI

(***************************************************************************)
(* C2: on a fully occupied board with no completed line getWinner returns  *)
(* winner = null and isDraw returns true; the board X O X / O X O / O X O  *)
(* is such a board.                                                        *)
(***************************************************************************)
C2_FullBoardDraw ==
  /\ Full(BoardC2) /\ NoLine(BoardC2)
  /\ (Full(board) /\ NoLine(board)) =>
       /\ "getWinner" \in done => retWinner.winner = Null
       /\ "isDraw" \in done => retDraw = TRUE

C2_Witness ==
  /\ board = BoardC2
  /\ done = {"getWinner", "isDraw"}
  /\ retWinner.winner = Null
  /\ retDraw = TRUE

(***************************************************************************)
(* C3: on a board with an empty cell and no completed line getWinner       *)
(* returns winner = null and line = null, and isDraw returns false.        *)
(***************************************************************************)
C3_NoWinnerYet ==
  (~Full(board) /\ NoLine(board)) =>
    /\ "getWinner" \in done =>
         retWinner.winner = Null /\ retWinner.line = NullLine
    /\ "isDraw" \in done => retDraw = FALSE

C3_Witness ==
  /\ Cardinality(EmptySet(board)) = 1
  /\ NoLine(board)
  /\ done = {"getWinner", "isDraw"}
  /\ retWinner = [winner |-> Null, line |-> NullLine]
  /\ retDraw = FALSE

(***************************************************************************)
(* C4: the index getBestMove returns, when not null, is in 0..8 and is an  *)
(* empty cell of the input board, whatever the random draw.                *)
(***************************************************************************)
C4_MoveIsEmptyCell ==
  ("getBestMove" \in done /\ retMove # NullIndex) =>
    /\ retMove \in Indices
    /\ board[retMove] = Null

C4_Witness ==
  /\ "getBestMove" \in done
  /\ retMove # NullIndex
  /\ Len(bestMoves) >= 2
  /\ retMove = bestMoves[2]
  /\ Cardinality(EmptySet(board)) < BoardLen - 2

(***************************************************************************)
(* C5: getBestMove returns null exactly when the board has no empty cell,  *)
(* also on boards that already contain a completed line.                   *)
(***************************************************************************)
C5_NullIffFull ==
  "getBestMove" \in done => (retMove = NullIndex <=> Full(board))

C5_Witness ==
  /\ "getBestMove" \in done
  /\ HasLine(board, HUMAN)
  /\ ~Full(board)
  /\ retMove # NullIndex

(***************************************************************************)
(* C6, as stated: on a board with no completed line where the AI can       *)
(* complete a line in one move, getBestMove returns the completing index   *)
(* and exactly one root move has the maximal score.                        *)
(***************************************************************************)
C6_Original ==
  ("getBestMove" \in done /\ NoLine(board) /\ Completing(board, ai) # {}) =>
    /\ retMove \in Completing(board, ai)
    /\ Len(bestMoves) = 1

(***************************************************************************)
(* C6, amended: on such a board the root moves with the maximal score are  *)
(* exactly the cells that complete an AI line, each listed once, so        *)
(* getBestMove returns a completing index for every random draw, and the   *)
(* same index for every draw when exactly one cell completes an AI line.   *)
(***************************************************************************)
C6_ReturnsAWinningIndex ==
  ("getBestMove" \in done /\ NoLine(board) /\ Completing(board, ai) # {}) =>
    /\ retMove \in Completing(board, ai)
    /\ Range(bestMoves) = Completing(board, ai)
    /\ Len(bestMoves) = Cardinality(Completing(board, ai))
    /\ bestScore = 10

C6_Witness ==
  /\ "getBestMove" \in done
  /\ NoLine(board)
  /\ Cardinality(Completing(board, ai)) = 1
  /\ Completing(board, human) # {}
  /\ Completing(board, human) # Completing(board, ai)
  /\ bestMoves = <<retMove>>
  /\ retMove \in Completing(board, ai)

(***************************************************************************)
(* C7, as stated: on a board with no completed line where some empty cell  *)
(* would complete a human line, getBestMove returns such a cell for every  *)
(* random draw.                                                            *)
(***************************************************************************)
C7_Original ==
  ("getBestMove" \in done /\ NoLine(board) /\ Completing(board, human) # {}) =>
    retMove \in Completing(board, human)

(***************************************************************************)
(* C7, amended: on a board with no completed line where no cell completes  *)
(* an AI line and exactly one empty cell would complete a human line, that *)
(* cell is the only root move with the maximal score and getBestMove       *)
(* returns it for every random draw.                                       *)
(***************************************************************************)
C7_BlocksTheOnlyThreat ==
  ( /\ "getBestMove" \in done
    /\ NoLine(board)
    /\ Completing(board, ai) = {}
    /\ Cardinality(Completing(board, human)) = 1 ) =>
    /\ Completing(board, human) = {retMove}
    /\ bestMoves = <<retMove>>

C7_Witness ==
  /\ "getBestMove" \in done
  /\ NoLine(board)
  /\ Completing(board, ai) = {}
  /\ Cardinality(Completing(board, human)) = 1
  /\ Cardinality(EmptySet(board)) >= 5
  /\ retMove \in Completing(board, human)

(***************************************************************************)
(* C8: on X X _ / _ O _ / _ _ _ with ai = O and human = X, index 2 is the  *)
(* only root move with the maximal score and getBestMove returns 2.        *)
(***************************************************************************)
C8_BlocksTopRow ==
  ("getBestMove" \in done /\ board = BoardC8 /\ ai = "O" /\ human = "X") =>
    /\ retMove = 2
    /\ bestMoves = <<2>>

C8_Witness ==
  /\ "getBestMove" \in done
  /\ board = BoardC8
  /\ ai = "O" /\ human = "X"
  /\ retMove = 2

(***************************************************************************)
(* C9: on O O _ / X X _ / _ _ _ with ai = O and human = X, getBestMove     *)
(* returns 2, completing the AI's line, and never the block 5.             *)
(***************************************************************************)
C9_WinsRatherThanBlocks ==
  ("getBestMove" \in done /\ board = BoardC9 /\ ai = "O" /\ human = "X") =>
    /\ retMove = 2
    /\ 5 \notin Range(bestMoves)

C9_Witness ==
  /\ "getBestMove" \in done
  /\ board = BoardC9
  /\ ai = "O" /\ human = "X"
  /\ retMove = 2
  /\ 5 \in Completing(board, human)

(***************************************************************************)
(* C10: on a board with an empty cell, the indices getBestMove can return  *)
(* are exactly the empty cells whose root score is the maximum over all    *)
(* empty cells: the returned index is one of them, bestMoves holds exactly *)
(* them, and each of them is returned for some value of the random draw.   *)
(* rootScores holds the minimax score of each root move as computed with   *)
(* the AI mark placed on a copy of the board.                              *)
(***************************************************************************)
C10_ReturnsExactlyTheMaxima ==
  ("getBestMove" \in done /\ ~Full(board)) =>
    /\ Len(rootScores) = Cardinality(EmptySet(board))
    /\ retMove \in ArgMax(board, rootScores)
    /\ Range(bestMoves) = ArgMax(board, rootScores)
    /\ {pick(bestMoves, n) : n \in 0..(RandRes - 1)} = ArgMax(board, rootScores)

C10_Witness ==
  /\ "getBestMove" \in done
  /\ Len(bestMoves) = 3
  /\ Cardinality(EmptySet(board)) = 6
  /\ NoLine(board)
  /\ retMove = bestMoves[3]

(***************************************************************************)
(* C11. getWinner, isDraw and getBestMove, the recursive minimax search    *)
(* included, leave the caller's board as it was: every hypothetical move   *)
(* is written to a copy, so no step of a call changes the board.           *)
(***************************************************************************)
C11_BoardUnchanged == [][board' = board]_vars

\* All three functions were called on a board the search had to recurse on.
C11_Witness ==
  /\ done = {"getWinner", "isDraw", "getBestMove"}
  /\ callDepth >= 3
  /\ ~threw

(***************************************************************************)
(* C13. The score minimax returns is 10 - depth when the AI has a          *)
(* completed line, depth - 10 when the human has one, 0 on a full board    *)
(* without a line, and otherwise the maximum (AI to move) or the minimum   *)
(* (human to move) of the scores of the boards after each legal move, at   *)
(* depth + 1.  Consequently the move getBestMove returns wins in the       *)
(* fewest plies against the best defence when a win can be forced, and     *)
(* when every move loses it holds out for the most plies.                  *)
(***************************************************************************)
Children(b, mark) == {[b EXCEPT ![i] = mark] : i \in EmptySet(b)}
Never == 2 * BoardLen

\* The number of plies within which who completes a line whatever the other
\* side plays, the other side holding out as long as it can; Never when the
\* other side can prevent it.
PliesToLine(b0, aiTurn0, who) ==
  LET f[b \in Boards, aiTurn \in BOOLEAN] ==
        IF HasLine(b, who) THEN 0
        ELSE IF HasLine(b, Other(who)) \/ Full(b) THEN Never
        ELSE LET mover == IF aiTurn THEN AI ELSE HUMAN
                 rest == {f[c, ~aiTurn] : c \in Children(b, mover)}
                 n == IF mover = who THEN MinOf(rest) ELSE MaxOf(rest)
             IN  IF n = Never THEN Never ELSE n + 1
  IN  f[b0, aiTurn0]

C13_ScoreOfBoard ==
  (done = {"minimax"} /\ ~(HasLine(board, AI) /\ HasLine(board, HUMAN))) =>
    IF HasLine(board, AI) THEN retScore = 10 - argDepth
    ELSE IF HasLine(board, HUMAN) THEN retScore = argDepth - 10
    ELSE IF Full(board) THEN retScore = 0
    ELSE IF argTurn
    THEN retScore = MaxOf({minimax(c, FALSE, AI, HUMAN, argDepth + 1) :
                             c \in Children(board, AI)})
    ELSE retScore = MinOf({minimax(c, TRUE, AI, HUMAN, argDepth + 1) :
                             c \in Children(board, HUMAN)})

C13_QuickestWinSlowestLoss ==
  (done = {"getBestMove"} /\ NoLine(board) /\ ~Full(board)) =>
    LET after(m) == [board EXCEPT ![m] = AI]
        win == {PliesToLine(after(m), FALSE, AI) : m \in EmptySet(board)}
        loss == {PliesToLine(after(m), FALSE, HUMAN) : m \in EmptySet(board)}
    IN  /\ MinOf(win) # Never =>
             PliesToLine(after(retMove), FALSE, AI) = MinOf(win)
        /\ Never \notin loss =>
             PliesToLine(after(retMove), FALSE, HUMAN) = MaxOf(loss)

\* C13: the score minimax returns is the one of the recurrence, and the move
\* getBestMove returns wins the soonest or loses the latest
C13_MinimaxScores == C13_ScoreOfBoard /\ C13_QuickestWinSlowestLoss

\* Every move loses, some sooner than others.
C13_Witness ==
  /\ done = {"getBestMove"}
  /\ NoLine(board) /\ ~Full(board)
  /\ bestScore = -7
  /\ \E k \in 1..Len(rootScores) : rootScores[k] = -9

(***************************************************************************)
(* C20. minimax terminates: a call returns at once on a decided board and  *)
(* otherwise recurses only on boards with one more occupied cell, so the   *)
(* recursion below a call is never deeper than the number of empty cells   *)
(* of its board, and the call stack is never exhausted.                    *)
(***************************************************************************)
Decided(b) == HasLine(b, AI) \/ HasLine(b, HUMAN) \/ Full(b)

\* C20: no call exhausts the stack, and the recursion below a call is at
\* most as deep as its board has empty cells
C20_DepthBoundedByEmpties ==
  /\ ~threw
  /\ done = {"minimax"} =>
       /\ callDepth - 1 <= Cardinality(EmptySet(board))
       /\ Decided(board) <=> callDepth = 1
  /\ done = {"getBestMove"} => callDepth <= Cardinality(EmptySet(board))

\* a call whose recursion went all the way down to a full board
C20_Witness ==
  /\ done = {"minimax"}
  /\ Cardinality(EmptySet(board)) = 4
  /\ callDepth = 5

(***************************************************************************)
(* C12. In every reachable state of the App a promo code is present        *)
(* exactly when the round result is 'win', that is when X has a completed  *)
(* line: only a human victory generates one, a loss or a draw never does,  *)
(* and a new round clears it.                                              *)
(***************************************************************************)
C12_PromoIffWin ==
  /\ (promoCode # NullCode) <=> (result = "win")
  /\ promoCode # NullCode => promoCode \in PromoCodes /\ HasLine(board, HUMAN)
  /\ result \in {"playing", "loss", "draw"} => promoCode = NullCode

C12_Witness ==
  /\ result = "win"
  /\ promoCode \in PromoCodes
  /\ HasLine(board, HUMAN)

(***************************************************************************)
(* C14. With difficulty 'smart' every AI move is one getBestMove returns;  *)
(* then, whatever the human plays and however ties are broken, no          *)
(* reachable board has a completed X line and the result is never 'win'.   *)
(***************************************************************************)
C14_SmartNeverLoses ==
  /\ ~HasLine(board, HUMAN)
  /\ result # "win"

\* a round played to the end against the smart AI
C14_Witness ==
  /\ difficulty = "smart"
  /\ result = "draw"
  /\ Full(board)

(***************************************************************************)
(* C15. The round result agrees with the evaluator on the current board:   *)
(* 'win' iff X has a completed line, 'loss' iff O has one, 'draw' iff the  *)
(* board is full without a line, 'playing' iff there is no line and an     *)
(* empty cell; the winning line is non-null only when the result is 'win'  *)
(* or 'loss' and is then a completed line of the winner.                   *)
(***************************************************************************)
C15_ResultAgreesWithBoard ==
  /\ (result = "win") <=> HasLine(board, HUMAN)
  /\ (result = "loss") <=> HasLine(board, AI)
  /\ (result = "draw") <=> (Full(board) /\ NoLine(board))
  /\ (result = "playing") <=> (NoLine(board) /\ ~Full(board))
  /\ winningLine # NullLine =>
       /\ result \in {"win", "loss"}
       /\ winningLine \in LineSet
       /\ \A k \in 1..3 :
            board[winningLine[k]] = IF result = "win" THEN HUMAN ELSE AI

C15_Witness ==
  /\ result = "loss"
  /\ winningLine \in LineSet
  /\ \A k \in 1..3 : board[winningLine[k]] = AI

(***************************************************************************)
(* C16. A round starts with the empty board and the human to move, and the *)
(* marks alternate: count(X) - count(O) is 0 or 1, 0 while the human is to *)
(* move and 1 while the AI is to move; a human move when the round is      *)
(* over, when it is not the human's turn or on an occupied cell changes    *)
(* nothing.                                                                *)
(***************************************************************************)
Ahead(b) == count(b, HUMAN) - count(b, AI)

C16_Alternation ==
  /\ Ahead(board) \in {0, 1}
  /\ (result = "playing" /\ turn = "human") => Ahead(board) = 0
  /\ (result = "playing" /\ turn = "ai") => Ahead(board) = 1

\* a step that lowers the number of marks starts a round
C16_RoundStart ==
  Cardinality(EmptySet(board')) > Cardinality(EmptySet(board)) =>
    board' = EmptyBoard /\ turn' = "human" /\ result' = "playing"

\* a step that adds an X is a human move on an empty cell, made while the
\* round is on and it is the human's turn
C16_HumanMoveStep ==
  count(board', HUMAN) # count(board, HUMAN) /\ board' # EmptyBoard =>
    /\ result = "playing" /\ turn = "human"
    /\ \E i \in EmptySet(board) : board' = [board EXCEPT ![i] = HUMAN]

\* C16: rounds start empty with the human to move, X is never more than one
\* mark ahead and never behind, and only a legal human move adds an X
C16_StrictAlternation ==
  /\ board = EmptyBoard /\ turn = "human" /\ result = "playing"
  /\ []C16_Alternation
  /\ [][C16_RoundStart /\ C16_HumanMoveStep]_vars

C16_Witness ==
  /\ result = "playing"
  /\ turn = "ai"
  /\ count(board, HUMAN) = 3
  /\ count(board, AI) = 2

(***************************************************************************)
(* C17. The board always has exactly 9 cells, and within a round a cell    *)
(* that holds a mark keeps it: no human move and no AI move, best or       *)
(* mistaken, clears or overwrites an occupied cell.                        *)
(***************************************************************************)
C17_KeepsMarks ==
  board' # EmptyBoard => \A i \in Indices : board[i] # Null => board'[i] = board[i]

\* C17: the board has 9 cells and no step but a reset changes an occupied
\* cell
C17_NineCellsMarksKept ==
  /\ [](DOMAIN board = 0..8 /\ \A i \in 0..8 : board[i] \in {HUMAN, AI, Null})
  /\ [][C17_KeepsMarks]_vars

\* a round in which the AI may have moved at random, one cell left
C17_Witness ==
  /\ difficulty = "soft"
  /\ result = "playing"
  /\ Cardinality(EmptySet(board)) = 1

(***************************************************************************)
(* C18. Under legal play no reachable board has completed lines of both    *)
(* marks.                                                                  *)
(***************************************************************************)
C18_OneWinnerAtMost == ~(HasLine(board, HUMAN) /\ HasLine(board, AI))

\* the AI completed a line with its last possible move
C18_Witness ==
  /\ HasLine(board, AI)
  /\ Cardinality(EmptySet(board)) = 1

(***************************************************************************)
(* C19. As stated: no reachable board contains two distinct completed      *)
(* lines.                                                                  *)
(***************************************************************************)
CompletedLines(b) ==
  {i \in 1..Len(LINES) :
     b[LINES[i][1]] # Null /\ \A k \in 1..3 : b[LINES[i][k]] = b[LINES[i][1]]}

C19_Original == Cardinality(CompletedLines(board)) <= 1

(***************************************************************************)
(* C19, amended. A move can complete two lines at once but no more: a      *)
(* reachable board has at most two completed lines, they hold the same     *)
(* mark and cross in one cell, and the line reported as winning is the     *)
(* first of them in the scan order, so that the order decides which line   *)
(* is reported but never the winner.                                       *)
(***************************************************************************)
C19_AtMostTwoCrossingLines ==
  LET lines == CompletedLines(board)
  IN  /\ Cardinality(lines) <= 2
      /\ \A i, j \in lines :
           /\ board[LINES[i][1]] = board[LINES[j][1]]
           /\ i # j => Cardinality(Range(LINES[i]) \cap Range(LINES[j])) = 1
      /\ lines # {} => winningLine = LINES[MinOf(lines)]

\* a move completed two lines and the first one in the scan order is shown
C19_Witness ==
  /\ Cardinality(CompletedLines(board)) = 2
  /\ winningLine = LINES[MinOf(CompletedLines(board))]

(***************************************************************************)
(* C21. Each AI turn places exactly one O, by the timer callback: a step   *)
(* that adds an O happens with the timer pending, the round on and the AI  *)
(* to move, it writes one empty cell and leaves no timer pending and the   *)
(* turn with the human (or the round over); a timer is pending only while  *)
(* the round is on and it is the AI's turn; a difficulty change re-arms    *)
(* the pending timer without touching the board; and a reset leaves no     *)
(* timer pending, the next mark on the empty board being the human's.      *)
(***************************************************************************)
C21_TimerOnlyOnAiTurn == aiTimer.pending => result = "playing" /\ turn = "ai"

C21_AiStep ==
  count(board', AI) > count(board, AI) =>
    /\ aiTimer.pending /\ result = "playing" /\ turn = "ai"
    /\ \E i \in Indices : board[i] = Null /\ board' = [board EXCEPT ![i] = AI]
    /\ ~aiTimer'.pending
    /\ result' # "playing" \/ turn' = "human"

C21_DifficultyStep ==
  difficulty' # difficulty =>
    /\ board' = board /\ turn' = turn /\ result' = result
    /\ aiTimer'.pending <=> aiTimer.pending
    /\ aiTimer'.difficulty = difficulty'

C21_ResetStep ==
  /\ (board # EmptyBoard /\ board' = EmptyBoard) =>
       ~aiTimer'.pending /\ turn' = "human" /\ result' = "playing"
  /\ (board = EmptyBoard /\ board' # EmptyBoard) =>
       \E i \in Indices : board' = [board EXCEPT ![i] = HUMAN]

C21_OneMarkPerAiTurn ==
  /\ []C21_TimerOnlyOnAiTurn
  /\ [][C21_AiStep /\ C21_DifficultyStep /\ C21_ResetStep]_vars

\* the timer is pending in a round in which the AI has moved twice, after a
\* change of the difficulty
C21_Witness ==
  /\ aiTimer.pending /\ aiTimer.difficulty = "smart"
  /\ count(board, AI) = 2

(***************************************************************************)
(* C22. The retry counter stays in 0..3 and never increases; it changes    *)
(* only when a round is restarted, by exactly one when the round restarted *)
(* was lost or drawn, and not at all when it was won or still on; with no  *)
(* retry left, a lost or drawn round is not restarted: no step changes the *)
(* board, the result or the counter.                                       *)
(***************************************************************************)
C22_InRange == failRetriesLeft \in 0..FAIL_RETRIES_MAX

\* a new round is started from a round that was under way or over
C22_Restart ==
  /\ board' = EmptyBoard /\ result' = "playing"
  /\ board # EmptyBoard \/ result # "playing"

C22_Step ==
  /\ failRetriesLeft' <= failRetriesLeft
  /\ failRetriesLeft' # failRetriesLeft => C22_Restart
  /\ (C22_Restart /\ (result = "loss" \/ result = "draw")) =>
       failRetriesLeft > 0 /\ failRetriesLeft' = failRetriesLeft - 1
  /\ (C22_Restart /\ (result = "win" \/ result = "playing")) =>
       failRetriesLeft' = failRetriesLeft
  /\ (failRetriesLeft = 0 /\ (result = "loss" \/ result = "draw")) =>
       board' = board /\ result' = result /\ failRetriesLeft' = failRetriesLeft

C22_RetriesOnlyDecrease == []C22_InRange /\ [][C22_Step]_vars

\* the last retry was spent and the round that followed was drawn
C22_Witness == failRetriesLeft = 0 /\ result = "draw"

(***************************************************************************)
(* C23. In a round at most one notification request is issued: a won round *)
(* has issued exactly one, for the event 'win' with the round's promo      *)
(* code, a lost round exactly one for the event 'loss', a drawn round and  *)
(* a round under way none; and the guard is cleared only by the step that  *)
(* starts a new round.                                                     *)
(***************************************************************************)
C23_RequestsOfRound ==
  /\ Len(roundRequests) <= 1
  /\ telegramSentRef <=> roundRequests # <<>>
  /\ result = "win" =>
       /\ promoCode \in PromoCodes
       /\ roundRequests = <<[event |-> "win", promo |-> promoCode]>>
  /\ result = "loss" =>
       roundRequests = <<[event |-> "loss", promo |-> NullCode]>>
  /\ result \in {"draw", "playing"} => roundRequests = <<>>

C23_RearmStep ==
  (telegramSentRef /\ ~telegramSentRef') =>
    board' = EmptyBoard /\ result' = "playing" /\ result # "playing"

C23_OneRequestPerRound == []C23_RequestsOfRound /\ [][C23_RearmStep]_vars

\* a second round was lost while the request of the first is unanswered
C23_Witness ==
  /\ result = "loss" /\ inFlight = 2
  /\ roundRequests = <<[event |-> "loss", promo |-> NullCode]>>

(***************************************************************************)
(* C24. While the round is under way the delivery status is 'idle'.        *)
(***************************************************************************)
C24_IdleWhilePlaying == result = "playing" => telegramStatus = "idle"

(***************************************************************************)
(* Vocabulary of the properties of the server: the request the last        *)
(* response answers, and what a step that handles a request finds.         *)
(***************************************************************************)
Digits == {"0", "1", "2", "3", "4", "5", "6", "7", "8", "9"}
\* the step handles a request of the route
Handles(route) == response'.seq # response.seq /\ response'.route = route
\* the code the request handled by the step names, without outer blanks
AskedCode == trim(response'.code.chars)
\* the record a map holds for a code, NoRec if none
RecordOf(map, code) == IF code \in DOMAIN map THEN map[code] ELSE NoRec
\* the record of a code is older than an hour when the step begins
Expired(code) ==
  RecordOf(linkMap, code).present
    /\ now - RecordOf(linkMap, code).createdAt > LINK_TTL_MS

\* a response with linked: true names a code whose present record was
\* bound by a start command from a chat
C25_LinkedOnlyAfterStart ==
  (response.route = "GET link" /\ response.linked) =>
    LET code == trim(response.code.chars)
    IN  /\ response.status = 200
        /\ code \in issued
        /\ \E chat \in ChatIds :
             <<code, RecordOf(linkMap, code).createdAt, ToString(chat)>>
               \in started

C25_Unknown == response'.status = 404 /\ response'.error = "Unknown code"

(***************************************************************************)
(* C25. As stated: linked: true is answered only after a start command for *)
(* the code, from a chat, was processed while the code had its record;     *)
(* and a code that was never issued, or whose record is older than an hour *)
(* when the query is made, is answered 404 'Unknown code'.                 *)
(***************************************************************************)
C25_Original ==
  /\ []C25_LinkedOnlyAfterStart
  /\ [][Handles("GET link") =>
          ((AskedCode \notin issued \/ Expired(AskedCode)) => C25_Unknown)]_vars

(***************************************************************************)
(* C25, amended. The same, for a query with a code that is not blank to a  *)
(* server whose bot token is set: without the token the answer is 500,     *)
(* and to a blank code it is 400 'Missing code'.                           *)
(***************************************************************************)
C25_LinkedAfterStartElseUnknown ==
  /\ []C25_LinkedOnlyAfterStart
  /\ [][Handles("GET link") =>
          /\ ~token => response'.status = 500
          /\ (token /\ AskedCode = <<>>) =>
               response'.status = 400 /\ response'.error = "Missing code"
          /\ (token /\ AskedCode # <<>>) =>
               ((AskedCode \notin issued \/ Expired(AskedCode))
                  => C25_Unknown)]_vars

\* a code that was linked is answered 404 once its record is too old
C25_Witness ==
  /\ response.route = "GET link" /\ response.status = 404
  /\ \E bound \in started :
       /\ bound[1] = trim(response.code.chars)
       /\ now - bound[2] > LINK_TTL_MS

(***************************************************************************)
(* C26.  The parts of the claim, for a step that handles POST              *)
(* /api/telegram.                                                          *)
(***************************************************************************)
C26_NonBlank == response'.code.isString /\ AskedCode # <<>>
C26_ValidEvent == response'.event \in {"win", "loss"}
C26_ValidPromo ==
  /\ response'.promo.isString
  /\ Len(response'.promo.chars) = 5
  /\ \A k \in 1..Len(response'.promo.chars) : response'.promo.chars[k] \in Digits
\* the code has no record, a record older than an hour, or one that is
\* not bound when the request has polled
C26_Unusable ==
  \/ ~RecordOf(linkMap, AskedCode).present
  \/ Expired(AskedCode)
  \/ RecordOf(linkMap', AskedCode).chatId = NullChat

\* with a link code the message goes to the chat bound to the code and
\* never to the fallback chat
C26_ToBoundChat ==
  (C26_NonBlank /\ outbox'.sent) =>
    /\ ~C26_Unusable
    /\ outbox'.chat_id = RecordOf(linkMap', AskedCode).chatId
    /\ outbox'.chat_id # envChatId

\* a message is sent only for 'win' and 'loss', and for 'win' only with a
\* promo of five digits; otherwise the answer is 400
C26_ValidOnly ==
  /\ outbox'.sent => C26_ValidEvent /\ (response'.event = "win" => C26_ValidPromo)
  /\ ~(C26_ValidEvent /\ (response'.event = "win" => C26_ValidPromo)) =>
       response'.status = 400 /\ ~outbox'.sent

(***************************************************************************)
(* C26. As stated: with a link code that is not blank the message goes     *)
(* only to the chat bound to the code, a code that is unknown, expired or  *)
(* not bound is answered 400 with nothing sent, and the fallback chat is   *)
(* not used; in every case a message is sent only for a valid event and    *)
(* promo, and the answer is 400 otherwise.                                 *)
(***************************************************************************)
C26_Original ==
  [][Handles("POST telegram") =>
       /\ C26_ToBoundChat
       /\ (C26_NonBlank /\ C26_Unusable) =>
            response'.status = 400 /\ ~outbox'.sent
       /\ C26_ValidOnly]_vars

(***************************************************************************)
(* C26, amended. The same, the 400 for an unusable link code being the     *)
(* answer of a server whose bot token is set: without the token a request  *)
(* with a valid event and promo is answered 500, and nothing is sent.      *)
(***************************************************************************)
C26_LinkedChatOnly ==
  [][Handles("POST telegram") =>
       /\ C26_ToBoundChat
       /\ (C26_NonBlank /\ C26_Unusable) =>
            /\ ~outbox'.sent
            /\ response'.status = IF token \/ ~C26_ValidEvent
                                     \/ (response'.event = "win" /\ ~C26_ValidPromo)
                                  THEN 400 ELSE 500
       /\ C26_ValidOnly]_vars

\* a victory was sent to the chat bound to the code although a fallback
\* chat is configured
C26_Witness ==
  /\ response.route = "POST telegram" /\ response.event = "win"
  /\ outbox.sent /\ outbox.chat_id = "101"
  /\ envChatId = "900"

=============================================================================
